---- MODULE Spec2Model ----
(***************************************************************************)
(* A model of business_days.py: the holiday table, the cache of effective  *)
(* holiday dates with its known year span, and the query functions.        *)
(*                                                                         *)
(* A datetime at midnight is modelled by its proleptic Gregorian ordinal   *)
(* (datetime.toordinal()), so that comparison, hashing, timedelta          *)
(* arithmetic, weekday() and .year are computed as the datetime module     *)
(* computes them.  Holiday values are sequences of decimal digits, parsed  *)
(* the way strptime parses '%Y%m%d'.  The tables of this model hold        *)
(* records whose value parses in every year.                               *)
(***************************************************************************)
EXTENDS Integers, Sequences, FiniteSets, TLC

\* ---------------------------------------------------------------- bounds
MaxHolidays == 2   \* records in the holiday table
FirstYear == 2023  \* first year whose 1 January is probed
NumYears == 2      \* number of probed year boundaries
Near == 1          \* days probed on each side of a year boundary
MaxRun == 5        \* longest run of consecutive holidays (dense tables)

\* ------------------------------------------------------- calendar helpers
Min(a, b) == IF a <= b THEN a ELSE b

Max(a, b) == IF a >= b THEN a ELSE b

is_leap(y) == y % 4 = 0 /\ (y % 100 # 0 \/ y % 400 = 0)

days_before_year(y) ==
    LET p == y - 1 IN p * 365 + (p \div 4) - (p \div 100) + (p \div 400)

DaysBeforeMonthTable == <<0, 31, 59, 90, 120, 151, 181, 212, 243, 273, 304, 334>>

days_before_month(y, m) ==
    DaysBeforeMonthTable[m] + (IF m > 2 /\ is_leap(y) THEN 1 ELSE 0)

\* datetime(y, m, d).toordinal()
ymd2ord(y, m, d) == days_before_year(y) + days_before_month(y, m) + d

\* date.year, by the divmod cascade of datetime's _ord2ymd
year_of(n) ==
    LET n0 == n - 1
        n400 == n0 \div 146097
        r400 == n0 % 146097
        n100 == r400 \div 36524
        r100 == r400 % 36524
        n4 == r100 \div 1461
        r4 == r100 % 1461
        n1 == r4 \div 365
        y == n400 * 400 + 1 + n100 * 100 + n4 * 4 + n1
    IN IF n1 = 4 \/ n100 = 4 THEN y - 1 ELSE y

\* date.weekday(): Monday is 0, Sunday is 6
weekday(n) == (n + 6) % 7

\* f'{year}': the decimal digits of a four-digit year
year_digits(y) ==
    <<y \div 1000, (y \div 100) % 10, (y \div 10) % 10, y % 10>>

\* dt.datetime.strptime(s, '%Y%m%d') on an eight-digit string
strptime(s) ==
    ymd2ord(s[1] * 1000 + s[2] * 100 + s[3] * 10 + s[4],
            s[5] * 10 + s[6],
            s[7] * 10 + s[8])

\* ------------------------------------------------------------- _Holiday
get_date_sat(h, year, effective) ==
    LET date == IF h.type_cd = "ONCE" THEN strptime(h.value)
                ELSE IF h.type_cd = "RECUR"
                     THEN strptime(year_digits(year) \o h.value)
                     ELSE strptime(year_digits(year) \o <<0, 1, 0, 1>>)
    IN IF effective /\ weekday(date) >= 5 THEN date + 1 ELSE date

get_date(h, year, effective) ==
    LET date == IF h.type_cd = "ONCE" THEN strptime(h.value)
                ELSE IF h.type_cd = "RECUR"
                     THEN strptime(year_digits(year) \o h.value)
                     ELSE strptime(year_digits(year) \o <<0, 1, 0, 1>>)
    IN IF effective /\ weekday(date) = 6 THEN date + 1 ELSE date

get_effective_date(h, year) == get_date(h, year, TRUE)

get_actual_date(h, year) == get_date(h, year, FALSE)

\* ------------------------------------------------------------ the state
VARIABLES
    holidays,        \* __holidays: the list of _Holiday records
    cache,           \* __cache: the set of excluded dates
    min_year,        \* __min_year
    max_year,        \* __max_year
    current_locale,  \* __current_locale
    today,           \* dt.datetime.today().year
    pc,              \* "idle", or "walk" inside get_previous_business_day
    date_val,        \* the argument of the walk in progress
    prev_day,        \* the local prev_day of the walk in progress
    result           \* the last call, its arguments and what it returned

vars == <<holidays, cache, min_year, max_year, current_locale, today,
          pc, date_val, prev_day, result>>

\* the module globals as one value
Globals ==
    [holidays |-> holidays, cache |-> cache, min_year |-> min_year,
     max_year |-> max_year, current_locale |-> current_locale]

\* the holidays of the active locale, in table order
locale_holidays(g) ==
    {i \in DOMAIN g.holidays : g.holidays[i].locale = g.current_locale}

\* --------------------------------------------------------- cache upkeep
check_year(g, year) == year >= g.min_year /\ year <= g.max_year

\* the span grows, but only the requested year is expanded
load_holidays_for_year_only(g, year) ==
    [g EXCEPT !.min_year = Min(year, g.min_year),
              !.max_year = Max(year, g.max_year),
              !.cache = g.cache \cup
                  {get_effective_date(g.holidays[j], year) :
                       j \in locale_holidays(g)}]

\* range(max - min): the last year of the span is left out
load_holidays_for_year_short(g, year) ==
    LET mn == Min(year, g.min_year)
        mx == Max(year, g.max_year)
    IN [g EXCEPT !.min_year = mn,
                 !.max_year = mx,
                 !.cache = g.cache \cup
                     {get_effective_date(g.holidays[j], mn + i) :
                          i \in 0..(mx - mn - 1), j \in locale_holidays(g)}]

\* range(max - min + 2): one year past the span is expanded as well
load_holidays_for_year_over(g, year) ==
    LET mn == Min(year, g.min_year)
        mx == Max(year, g.max_year)
    IN [g EXCEPT !.min_year = mn,
                 !.max_year = mx,
                 !.cache = g.cache \cup
                     {get_effective_date(g.holidays[j], mn + i) :
                          i \in 0..(mx - mn + 1), j \in locale_holidays(g)}]

\* only the dates that fall in the year being expanded are kept
load_holidays_for_year_in_year(g, year) ==
    LET mn == Min(year, g.min_year)
        mx == Max(year, g.max_year)
    IN [g EXCEPT !.min_year = mn,
                 !.max_year = mx,
                 !.cache = g.cache \cup
                     {d \in {get_effective_date(g.holidays[j], mn + i) :
                                i \in 0..(mx - mn), j \in locale_holidays(g)} :
                         year_of(d) \in mn..mx}]

\* the span and the cache replaced by the requested year alone
load_holidays_for_year_reset(g, year) ==
    [g EXCEPT !.min_year = year,
              !.max_year = year,
              !.cache = {get_effective_date(g.holidays[j], year) :
                            j \in locale_holidays(g)}]

load_holidays_for_year(g, year) ==
    LET mn == Min(year, g.min_year)
        mx == Max(year, g.max_year)
    IN [g EXCEPT !.min_year = mn,
                 !.max_year = mx,
                 !.cache = g.cache \cup
                     {get_effective_date(g.holidays[j], mn + i) :
                          i \in 0..(mx - mn), j \in locale_holidays(g)}]

\* no test of the span: the cache is rebuilt for the requested year each time
check_and_update_reload(g, year) ==
    [g EXCEPT !.min_year = year,
              !.max_year = year,
              !.cache = {get_effective_date(g.holidays[j], year) :
                            j \in locale_holidays(g)}]

check_and_update(g, year) ==
    IF ~check_year(g, year) THEN load_holidays_for_year(g, year) ELSE g

\* __cache.clear() left out
init_keep_cache(g, locale, year, today_year) ==
    load_holidays_for_year(
        [g EXCEPT !.min_year = year, !.max_year = year,
                  !.current_locale = locale],
        today_year)

\* init(locale, year), reading the same public_holidays.csv
init(g, locale, year, today_year) ==
    load_holidays_for_year(
        [g EXCEPT !.min_year = year, !.max_year = year,
                  !.current_locale = locale, !.cache = {}],
        today_year)

\* ------------------------------------------------- values that do not parse
\* the days of month m of year y, as datetime checks the day
days_in_month(y, m) ==
    IF m = 2 THEN (IF is_leap(y) THEN 29 ELSE 28)
    ELSE IF m \in {4, 6, 9, 11} THEN 30 ELSE 31

\* dt.datetime.strptime(s, '%Y%m%d') raises ValueError on an eight-digit
\* string: the two-digit month or day does not match, or the day is out of
\* range for the month
strptime_raises(s) ==
    LET y == s[1] * 1000 + s[2] * 100 + s[3] * 10 + s[4]
        m == s[5] * 10 + s[6]
        d == s[7] * 10 + s[8]
    IN \/ y < 1
       \/ m \notin 1..12
       \/ d \notin 1..days_in_month(y, m)

\* __get_date(year) raises: the value is parsed here, never in __init__
get_date_raises(h, year) ==
    IF h.type_cd = "ONCE" THEN strptime_raises(h.value)
    ELSE IF h.type_cd = "RECUR" THEN strptime_raises(year_digits(year) \o h.value)
    ELSE FALSE

\* the (year, table index) passes of the loops of __load_holidays_for_year
\* in which get_effective_date raises
load_bad(g, year) ==
    {q \in (Min(year, g.min_year)..Max(year, g.max_year)) \X locale_holidays(g) :
        get_date_raises(g.holidays[q[2]], q[1])}

load_raises(g, year) == load_bad(g, year) # {}

\* the loops run year by year and, within a year, in table order
pass_before(p, q) == p[1] < q[1] \/ (p[1] = q[1] /\ p[2] < q[2])

load_first_bad(g, year) ==
    CHOOSE p \in load_bad(g, year) :
        \A q \in load_bad(g, year) : ~pass_before(q, p)

\* what __load_holidays_for_year leaves when it raises: the span already
\* assigned, and the dates added before the pass that raised
load_failed(g, year) ==
    LET mn == Min(year, g.min_year)
        mx == Max(year, g.max_year)
        first == load_first_bad(g, year)
    IN [g EXCEPT !.min_year = mn,
                 !.max_year = mx,
                 !.cache = g.cache \cup
                     {get_effective_date(g.holidays[q[2]], q[1]) :
                          q \in {r \in (mn..mx) \X locale_holidays(g) :
                                    pass_before(r, first)}}]

check_and_update_raises(g, year) ==
    ~check_year(g, year) /\ load_raises(g, year)

\* init up to its last statement: the globals assigned, the cache cleared
init_assigned(g, locale, year) ==
    [g EXCEPT !.min_year = year, !.max_year = year,
              !.current_locale = locale, !.cache = {}]

init_raises(g, locale, year, today_year) ==
    load_raises(init_assigned(g, locale, year), today_year)

init_failed(g, locale, year, today_year) ==
    load_failed(init_assigned(g, locale, year), today_year)

\* the records, of any locale, on which the comprehension of get_holidays and
\* of get_holiday_effective_dates raises: the date is computed before the
\* locale is tested
list_bad(g, year) ==
    {j \in DOMAIN g.holidays : get_date_raises(g.holidays[j], year)}

list_first_bad(g, year) ==
    CHOOSE j \in list_bad(g, year) : \A k \in list_bad(g, year) : j <= k

\* -------------------------------------------------------------- sorting
\* str.__lt__ on the names of the model, ascending as Python orders them
NameOrder ==
    <<"Bad Day", "Break", "Easter", "Leap Day", "New Year", "Old Year", "Once">>

name_rank(s) == CHOOSE i \in DOMAIN NameOrder : NameOrder[i] = s

date_less(a, b) == a < b

\* tuple.__lt__ on (date, name) pairs
pair_less(a, b) ==
    a[1] < b[1] \/ (a[1] = b[1] /\ name_rank(a[2]) < name_rank(b[2]))

\* the least member of a set of dates
min_date(S) == CHOOSE x \in S : \A y \in S : ~date_less(y, x)

\* list(S) followed by list.sort() on dates: the members of S met on the way
\* up from the least to the greatest
sort_dates(S) ==
    IF S = {} THEN <<>>
    ELSE LET lo == min_date(S)
             hi == 0 - min_date({0 - x : x \in S})
         IN SelectSeq([i \in 1..(hi - lo + 1) |-> lo + i - 1],
                      LAMBDA d : d \in S)

\* list(S) followed by list.sort() on (date, name) pairs: the ascending
\* arrangement of S, built around its middle member
RECURSIVE sort_pairs(_)
sort_pairs(S) ==
    IF S = {} THEN <<>>
    ELSE LET half == Cardinality(S) \div 2
             x == CHOOSE e \in S :
                      Cardinality({f \in S : pair_less(f, e)}) = half
         IN sort_pairs({f \in S : pair_less(f, x)}) \o <<x>>
                \o sort_pairs({f \in S : pair_less(x, f)})

\* ------------------------------------------------------------- queries
\* each query yields the globals it leaves and the value it returns
\* the weekday test left out
is_business_day_no_weekday(g, date) ==
    LET g1 == check_and_update(g, year_of(date))
    IN [g |-> g1, val |-> date \notin g1.cache]

\* the cache test left out
is_business_day_no_cache(g, date) ==
    LET g1 == check_and_update(g, year_of(date))
    IN [g |-> g1, val |-> weekday(date) < 5]

is_business_day(g, date) ==
    LET g1 == check_and_update(g, year_of(date))
    IN [g |-> g1, val |-> date \notin g1.cache /\ weekday(date) < 5]

\* range(days) in place of range(days + 1): the end date is never listed
get_business_days_short(g, start_date, end_date) ==
    LET g1 == check_and_update(g, year_of(start_date))
        g2 == check_and_update(g1, year_of(end_date))
        dates == {start_date + s : s \in
                     {t \in 0..(end_date - start_date - 1) :
                          weekday(start_date + t) < 5}} \ g2.cache
    IN [g |-> g2, val |-> sort_dates(dates)]

\* the two dates put in order before the range is walked
get_business_days_swapped(g, start_date, end_date) ==
    LET g1 == check_and_update(g, year_of(start_date))
        g2 == check_and_update(g1, year_of(end_date))
        lo == Min(start_date, end_date)
        hi == Max(start_date, end_date)
        dates == {lo + s : s \in
                     {t \in 0..(hi - lo) : weekday(lo + t) < 5}} \ g2.cache
    IN [g |-> g2, val |-> sort_dates(dates)]

get_business_days(g, start_date, end_date) ==
    LET g1 == check_and_update(g, year_of(start_date))
        g2 == check_and_update(g1, year_of(end_date))
        dates == {start_date + s : s \in
                     {t \in 0..(end_date - start_date) :
                          weekday(start_date + t) < 5}} \ g2.cache
    IN [g |-> g2, val |-> sort_dates(dates)]

\* the locale test left out
get_holidays_all_locales(g, year) ==
    LET g1 == check_and_update(g, year)
        hs == {<<get_actual_date(g1.holidays[j], year), g1.holidays[j].name>> :
                  j \in {i \in DOMAIN g1.holidays :
                            year_of(get_actual_date(g1.holidays[i], year)) = year}}
    IN [g |-> g1, val |-> sort_pairs(hs)]

get_holidays(g, year) ==
    LET g1 == check_and_update(g, year)
        hs == {<<get_actual_date(g1.holidays[j], year), g1.holidays[j].name>> :
                  j \in {i \in DOMAIN g1.holidays :
                            /\ year_of(get_actual_date(g1.holidays[i], year)) = year
                            /\ g1.holidays[i].locale = g1.current_locale}}
    IN [g |-> g1, val |-> sort_pairs(hs)]

\* filtered by the year of the actual date, as get_holidays filters
get_holiday_effective_dates_by_actual(g, year) ==
    LET g1 == check_and_update(g, year)
        ds == {get_effective_date(g1.holidays[j], year) :
                  j \in {i \in DOMAIN g1.holidays :
                            /\ year_of(get_actual_date(g1.holidays[i], year)) = year
                            /\ g1.holidays[i].locale = g1.current_locale}}
    IN [g |-> g1, val |-> sort_dates(ds)]

get_holiday_effective_dates(g, year) ==
    LET g1 == check_and_update(g, year)
        ds == {get_effective_date(g1.holidays[j], year) :
                  j \in {i \in DOMAIN g1.holidays :
                            /\ year_of(get_effective_date(g1.holidays[i], year)) = year
                            /\ g1.holidays[i].locale = g1.current_locale}}
    IN [g |-> g1, val |-> sort_dates(ds)]

\* ------------------------------------------------------------- inputs
Locales == {"en_US", "en_ZA"}

Jan1(y) == ymd2ord(y, 1, 1)

BoundaryYears == FirstYear..(FirstYear + NumYears - 1)

Years == (FirstYear - 1)..(FirstYear + NumYears - 1)

\* the years the process may be running in
TodayYears == BoundaryYears

QueryDates == UNION {(Jan1(y) - Near)..(Jan1(y) + Near) : y \in BoundaryYears}

\* the (start_date, end_date) pairs asked for: the short ranges, one of them
\* reversed, and the ranges from the earliest date on and back to it
RangePairs ==
    {p \in QueryDates \X QueryDates :
        \/ p[2] - p[1] \in (0 - 1)..(2 * Near)
        \/ p[1] = Jan1(FirstYear) - Near
        \/ p[2] = Jan1(FirstYear) - Near}

\* the records a table is drawn from: a recurring 1 January and 31 December,
\* a one-time Sunday 31 December 2023 and a record of no recognised kind
HolidayRules ==
    { [name |-> "New Year", type_cd |-> "RECUR", value |-> <<0, 1, 0, 1>>],
      [name |-> "Old Year", type_cd |-> "RECUR", value |-> <<1, 2, 3, 1>>],
      [name |-> "Once", type_cd |-> "ONCE", value |-> <<2, 0, 2, 3, 1, 2, 3, 1>>],
      [name |-> "Easter", type_cd |-> "EASTER", value |-> <<>>] }

HolidayRecords ==
    {[name |-> r.name, type_cd |-> r.type_cd, value |-> r.value, locale |-> l] :
        r \in HolidayRules, l \in Locales}

Tables == UNION {[1..n -> HolidayRecords] : n \in 0..MaxHolidays}

\* a run of k recurring holidays from 25 December on, one locale
dense_table(k, l) ==
    [i \in 1..k |->
        [name |-> "Break", type_cd |-> "RECUR",
         value |-> <<1, 2, (24 + i) \div 10, (24 + i) % 10>>, locale |-> l]]

DenseTables == {dense_table(k, l) : k \in 1..MaxRun, l \in Locales}

\* --------------------------------------------------------- the machine
SetGlobals(g) ==
    /\ holidays' = g.holidays
    /\ cache' = g.cache
    /\ min_year' = g.min_year
    /\ max_year' = g.max_year
    /\ current_locale' = g.current_locale

\* the state the import leaves: init() with the default locale and this year
Imported(tbl) ==
    /\ holidays = tbl
    /\ today \in TodayYears
    /\ \E l \in Locales :
          LET g == init([holidays |-> tbl, cache |-> {}, min_year |-> today,
                         max_year |-> today, current_locale |-> l],
                        l, today, today)
          IN /\ cache = g.cache
             /\ min_year = g.min_year
             /\ max_year = g.max_year
             /\ current_locale = g.current_locale
    /\ pc = "idle"
    /\ date_val = 0
    /\ prev_day = 0
    /\ result = [op |-> "import"]

Init == \E tbl \in Tables : Imported(tbl)

InitDense == \E tbl \in DenseTables : Imported(tbl)

DoInit(locale, year) ==
    /\ pc = "idle"
    /\ SetGlobals(init(Globals, locale, year, today))
    /\ result' = [op |-> "init", locale |-> locale, year |-> year]
    /\ UNCHANGED <<today, pc, date_val, prev_day>>

IsBusinessDay(date) ==
    /\ pc = "idle"
    /\ LET r == is_business_day(Globals, date)
       IN /\ SetGlobals(r.g)
          /\ result' = [op |-> "is_business_day", date |-> date, val |-> r.val]
    /\ UNCHANGED <<today, pc, date_val, prev_day>>

GetBusinessDays(start_date, end_date) ==
    /\ pc = "idle"
    /\ LET r == get_business_days(Globals, start_date, end_date)
       IN /\ SetGlobals(r.g)
          /\ result' = [op |-> "get_business_days", start_date |-> start_date,
                        end_date |-> end_date, dates |-> r.val]
    /\ UNCHANGED <<today, pc, date_val, prev_day>>

GetHolidays(year) ==
    /\ pc = "idle"
    /\ LET r == get_holidays(Globals, year)
       IN /\ SetGlobals(r.g)
          /\ result' = [op |-> "get_holidays", year |-> year, holidays |-> r.val]
    /\ UNCHANGED <<today, pc, date_val, prev_day>>

GetHolidayEffectiveDates(year) ==
    /\ pc = "idle"
    /\ LET r == get_holiday_effective_dates(Globals, year)
       IN /\ SetGlobals(r.g)
          /\ result' = [op |-> "get_holiday_effective_dates", year |-> year,
                        dates |-> r.val]
    /\ UNCHANGED <<today, pc, date_val, prev_day>>

\* get_previous_business_day(date_val): enter the loop with prev_day = date_val
GetPreviousBusinessDay(date) ==
    /\ pc = "idle"
    /\ pc' = "walk"
    /\ date_val' = date
    /\ prev_day' = date
    /\ result' = [op |-> "walking"]
    /\ UNCHANGED <<holidays, cache, min_year, max_year, current_locale, today>>

\* prev_day - dt.timedelta(1) computed and tested but never assigned
WalkStepStuck ==
    /\ pc = "walk"
    /\ LET p == prev_day - 1
           r == is_business_day(Globals, p)
       IN /\ SetGlobals(r.g)
          /\ IF r.val
             THEN /\ pc' = "idle"
                  /\ date_val' = 0
                  /\ prev_day' = 0
                  /\ result' = [op |-> "get_previous_business_day",
                                date_val |-> date_val, prev_day |-> p]
             ELSE /\ pc' = "walk"
                  /\ UNCHANGED <<date_val, prev_day, result>>
    /\ UNCHANGED today

\* one pass of the while loop: step back a day, test it, break or go on
WalkStep ==
    /\ pc = "walk"
    /\ LET p == prev_day - 1
           r == is_business_day(Globals, p)
       IN /\ SetGlobals(r.g)
          /\ IF r.val
             THEN /\ pc' = "idle"
                  /\ date_val' = 0
                  /\ prev_day' = 0
                  /\ result' = [op |-> "get_previous_business_day",
                                date_val |-> date_val, prev_day |-> p]
             ELSE /\ pc' = "walk"
                  /\ prev_day' = p
                  /\ UNCHANGED <<date_val, result>>
    /\ UNCHANGED today

Next ==
    \/ \E l \in Locales, y \in Years : DoInit(l, y)
    \/ \E d \in QueryDates : IsBusinessDay(d)
    \/ \E p \in RangePairs : GetBusinessDays(p[1], p[2])
    \/ \E y \in Years : GetHolidays(y)
    \/ \E y \in Years : GetHolidayEffectiveDates(y)
    \/ \E d \in QueryDates : GetPreviousBusinessDay(d)
    \/ WalkStep

Spec == Init /\ [][Next]_vars

\* the walk under the scheduling of a single thread: a loop that can take
\* its next pass takes it
SpecWalk == InitDense /\ [][Next]_vars /\ WF_vars(WalkStep)

\* ------------------------------------- tables with values that do not parse
\* a well-formed record, a month 13 that parses in no year, and a 29 February
\* that parses in leap years only
MalformedRules ==
    { [name |-> "New Year", type_cd |-> "RECUR", value |-> <<0, 1, 0, 1>>],
      [name |-> "Bad Day", type_cd |-> "RECUR", value |-> <<1, 3, 0, 1>>],
      [name |-> "Leap Day", type_cd |-> "RECUR", value |-> <<0, 2, 2, 9>>] }

MalformedRecords ==
    {[name |-> r.name, type_cd |-> r.type_cd, value |-> r.value, locale |-> l] :
        r \in MalformedRules, l \in Locales}

MalformedTables == UNION {[1..n -> MalformedRecords] : n \in 0..MaxHolidays}

\* the import succeeded: init() with the default locale did not raise
ImportedParsed(tbl) ==
    /\ holidays = tbl
    /\ today \in TodayYears
    /\ \E l \in Locales :
          LET g0 == [holidays |-> tbl, cache |-> {}, min_year |-> today,
                     max_year |-> today, current_locale |-> l]
          IN /\ ~init_raises(g0, l, today, today)
             /\ cache = init(g0, l, today, today).cache
             /\ min_year = today
             /\ max_year = today
             /\ current_locale = l
    /\ pc = "idle"
    /\ date_val = 0
    /\ prev_day = 0
    /\ result = [op |-> "import"]

InitMalformed == \E tbl \in MalformedTables : ImportedParsed(tbl)

is_business_day_raises(g, date) == check_and_update_raises(g, year_of(date))

get_business_days_raises(g, start_date, end_date) ==
    IF check_and_update_raises(g, year_of(start_date)) THEN TRUE
    ELSE check_and_update_raises(check_and_update(g, year_of(start_date)),
                                 year_of(end_date))

get_holidays_raises(g, year) ==
    IF check_and_update_raises(g, year) THEN TRUE
    ELSE list_bad(check_and_update(g, year), year) # {}

get_holiday_effective_dates_raises(g, year) ==
    IF check_and_update_raises(g, year) THEN TRUE
    ELSE list_bad(check_and_update(g, year), year) # {}

\* the ValueError of strptime leaves the function `call`, raised on the value
\* of record h, with the globals as they were at that moment
Raise(call, g, h) ==
    /\ SetGlobals(g)
    /\ result' = [op |-> "ValueError", call |-> call, holiday |-> h]

\* __check_and_update(year) raises inside function `call`
LoadRaises(call, g, year) ==
    Raise(call, load_failed(g, year), g.holidays[load_first_bad(g, year)[2]])

\* the comprehension over __holidays raises inside function `call`
ListRaises(call, g, year) ==
    Raise(call, g, g.holidays[list_first_bad(g, year)])

\* init raises in its last statement, after the globals were assigned
DoInitRaises(locale, year) ==
    /\ pc \in {"idle", "failed"}
    /\ init_raises(Globals, locale, year, today)
    /\ LoadRaises("init", init_assigned(Globals, locale, year), today)
    /\ pc' = "failed"
    /\ UNCHANGED <<today, date_val, prev_day>>

\* init called again after an init that raised
DoInitAgain(locale, year) ==
    /\ pc = "failed"
    /\ ~init_raises(Globals, locale, year, today)
    /\ SetGlobals(init(Globals, locale, year, today))
    /\ result' = [op |-> "init", locale |-> locale, year |-> year]
    /\ pc' = "idle"
    /\ UNCHANGED <<today, date_val, prev_day>>

IsBusinessDayRaises(date) ==
    /\ pc = "idle"
    /\ is_business_day_raises(Globals, date)
    /\ LoadRaises("is_business_day", Globals, year_of(date))
    /\ UNCHANGED <<today, pc, date_val, prev_day>>

GetBusinessDaysRaises(start_date, end_date) ==
    /\ pc = "idle"
    /\ get_business_days_raises(Globals, start_date, end_date)
    /\ IF check_and_update_raises(Globals, year_of(start_date))
       THEN LoadRaises("get_business_days", Globals, year_of(start_date))
       ELSE LoadRaises("get_business_days",
                       check_and_update(Globals, year_of(start_date)),
                       year_of(end_date))
    /\ UNCHANGED <<today, pc, date_val, prev_day>>

GetHolidaysRaises(year) ==
    /\ pc = "idle"
    /\ get_holidays_raises(Globals, year)
    /\ IF check_and_update_raises(Globals, year)
       THEN LoadRaises("get_holidays", Globals, year)
       ELSE ListRaises("get_holidays", check_and_update(Globals, year), year)
    /\ UNCHANGED <<today, pc, date_val, prev_day>>

GetHolidayEffectiveDatesRaises(year) ==
    /\ pc = "idle"
    /\ get_holiday_effective_dates_raises(Globals, year)
    /\ IF check_and_update_raises(Globals, year)
       THEN LoadRaises("get_holiday_effective_dates", Globals, year)
       ELSE ListRaises("get_holiday_effective_dates",
                       check_and_update(Globals, year), year)
    /\ UNCHANGED <<today, pc, date_val, prev_day>>

\* is_business_day raises inside the loop and the walk is abandoned
WalkStepRaises ==
    /\ pc = "walk"
    /\ is_business_day_raises(Globals, prev_day - 1)
    /\ LoadRaises("get_previous_business_day", Globals, year_of(prev_day - 1))
    /\ pc' = "idle"
    /\ date_val' = 0
    /\ prev_day' = 0
    /\ UNCHANGED today

\* every call either returns or raises; after an init that raised, the
\* caller can only call init again
NextMalformed ==
    \/ \E l \in Locales, y \in Years :
          pc = "idle" /\ ~init_raises(Globals, l, y, today) /\ DoInit(l, y)
    \/ \E l \in Locales, y \in Years : DoInitAgain(l, y)
    \/ \E l \in Locales, y \in Years : DoInitRaises(l, y)
    \/ \E d \in QueryDates :
          pc = "idle" /\ ~is_business_day_raises(Globals, d) /\ IsBusinessDay(d)
    \/ \E d \in QueryDates : IsBusinessDayRaises(d)
    \/ \E p \in RangePairs :
          /\ pc = "idle"
          /\ ~get_business_days_raises(Globals, p[1], p[2])
          /\ GetBusinessDays(p[1], p[2])
    \/ \E p \in RangePairs : GetBusinessDaysRaises(p[1], p[2])
    \/ \E y \in Years :
          pc = "idle" /\ ~get_holidays_raises(Globals, y) /\ GetHolidays(y)
    \/ \E y \in Years : GetHolidaysRaises(y)
    \/ \E y \in Years :
          /\ pc = "idle"
          /\ ~get_holiday_effective_dates_raises(Globals, y)
          /\ GetHolidayEffectiveDates(y)
    \/ \E y \in Years : GetHolidayEffectiveDatesRaises(y)
    \/ \E d \in QueryDates : GetPreviousBusinessDay(d)
    \/ pc = "walk" /\ ~is_business_day_raises(Globals, prev_day - 1) /\ WalkStep
    \/ WalkStepRaises

SpecMalformed == InitMalformed /\ [][NextMalformed]_vars

\* ------------------------------------------------------------ the claims
\* the definitions of the active locale
ActiveDefs ==
    {holidays[i] : i \in {j \in DOMAIN holidays : holidays[j].locale = current_locale}}

\* the years a holiday rule is asked about
ClaimYears == (FirstYear - 2)..(FirstYear + NumYears)

\* the members of a sequence
Range(s) == {s[i] : i \in DOMAIN s}

\* the single record New Year,RECUR,0101 of the active locale
OnlyNewYear ==
    holidays = <<[name |-> "New Year", type_cd |-> "RECUR",
                  value |-> <<0, 1, 0, 1>>, locale |-> current_locale]>>

\* C1: is_business_day(D) is true exactly when D is Monday-Friday and no
\* definition of the active locale has D as its effective date in any year,
\* whatever was queried before.
C1_BusinessDayIffNoHoliday ==
    result.op = "is_business_day" =>
        result.val =
            (/\ weekday(result.date) < 5
             /\ ~\E h \in ActiveDefs, y \in ClaimYears :
                    get_effective_date(h, y) = result.date)

\* C2: is_business_day(D) is false for every Saturday and Sunday D.
C2_WeekendNeverBusinessDay ==
    (result.op = "is_business_day" /\ weekday(result.date) >= 5) =>
        result.val = FALSE

\* a Saturday or Sunday that is not in the cache was asked about
C2_Witness ==
    /\ result.op = "is_business_day"
    /\ weekday(result.date) >= 5
    /\ result.date \notin cache
    /\ cache # {}

\* C3: no date returned by get_business_days is a Saturday or Sunday, and none
\* is the effective date, in its own year, of a definition of the active
\* locale; the years strictly between the two endpoint years included.
C3_BusinessDaysExcludeHolidays ==
    (result.op = "get_business_days" /\ result.start_date <= result.end_date) =>
        \A i \in DOMAIN result.dates :
            /\ weekday(result.dates[i]) < 5
            /\ \A h \in ActiveDefs :
                   get_effective_date(h, year_of(result.dates[i])) # result.dates[i]

\* a range over three years in whose middle year a weekday holiday falls
C3_Witness ==
    /\ result.op = "get_business_days"
    /\ year_of(result.end_date) - year_of(result.start_date) >= 2
    /\ \E h \in ActiveDefs :
          LET d == get_effective_date(h, year_of(result.start_date) + 1)
          IN /\ year_of(d) = year_of(result.start_date) + 1
             /\ weekday(d) < 5
             /\ d \notin Range(result.dates)
    /\ result.dates # <<>>

\* C4: get_business_days(start, end) with start <= end lists, strictly
\* ascending, exactly the dates of [start, end] that is_business_day accepts in
\* the state the call leaves.
C4_BusinessDaysExact ==
    (result.op = "get_business_days" /\ result.start_date <= result.end_date) =>
        /\ \A i \in DOMAIN result.dates, j \in DOMAIN result.dates :
               i < j => result.dates[i] < result.dates[j]
        /\ Range(result.dates) =
               {d \in result.start_date..result.end_date :
                    is_business_day(Globals, d).val}
        /\ \A d \in result.start_date..result.end_date :
               is_business_day(Globals, d).g = Globals

\* a range that loses a weekend day and a cached weekday and keeps its end
C4_Witness ==
    /\ result.op = "get_business_days"
    /\ result.start_date < result.end_date
    /\ result.end_date \in Range(result.dates)
    /\ \E d \in result.start_date..result.end_date : weekday(d) >= 5
    /\ \E d \in result.start_date..result.end_date : weekday(d) < 5 /\ d \in cache

\* C5: get_previous_business_day(D) is the latest business day before D; with
\* the single record New Year,RECUR,0101 it maps 2023-01-02 to 2022-12-30.
C5_PreviousIsLatestBusinessDay ==
    result.op = "get_previous_business_day" =>
        /\ result.prev_day < result.date_val
        /\ weekday(result.prev_day) < 5
        /\ result.prev_day \notin cache
        /\ \A q \in (result.prev_day + 1)..(result.date_val - 1) :
               weekday(q) >= 5 \/ q \in cache
        /\ (OnlyNewYear /\ result.date_val = ymd2ord(2023, 1, 2)) =>
               result.prev_day = ymd2ord(2022, 12, 30)

\* the walk from the holiday Monday 2023-01-02 ended on Friday 2022-12-30
C5_Witness ==
    /\ result.op = "get_previous_business_day"
    /\ OnlyNewYear
    /\ result.date_val = ymd2ord(2023, 1, 2)
    /\ result.prev_day = ymd2ord(2022, 12, 30)
    /\ result.date_val \in cache

C7_HolidaysExact ==
    result.op = "get_holidays" =>
        /\ \A i \in DOMAIN result.holidays, j \in DOMAIN result.holidays :
               i < j =>
                   \/ result.holidays[i][1] < result.holidays[j][1]
                   \/ /\ result.holidays[i][1] = result.holidays[j][1]
                      /\ name_rank(result.holidays[i][2]) < name_rank(result.holidays[j][2])
        /\ Range(result.holidays) =
               {<<get_actual_date(h, result.year), h.name>> :
                    h \in {a \in ActiveDefs :
                              year_of(get_actual_date(a, result.year)) = result.year}}
        /\ (OnlyNewYear /\ result.year = 2023) =>
               result.holidays = <<<<ymd2ord(2023, 1, 1), "New Year">>>>
        /\ \A i \in DOMAIN holidays :
               (holidays[i].type_cd = "ONCE"
                    /\ year_of(strptime(holidays[i].value)) # result.year) =>
                   \A k \in DOMAIN result.holidays : result.holidays[k][2] # holidays[i].name

\* two holidays of one date were listed, in the order of their names
C7_Witness ==
    /\ result.op = "get_holidays"
    /\ Len(result.holidays) = 2
    /\ result.holidays[1][1] = result.holidays[2][1]
    /\ result.holidays[1][2] # result.holidays[2][2]

\* C8: get_holiday_effective_dates(Y) lists, ascending and without duplicates,
\* exactly the effective dates of the active locale that lie in Y; a Sunday
\* 31 December of Y is listed by get_holidays(Y) and adds nothing here.
C8_EffectiveDatesExact ==
    result.op = "get_holiday_effective_dates" =>
        /\ \A i \in DOMAIN result.dates, j \in DOMAIN result.dates :
               i < j => result.dates[i] < result.dates[j]
        /\ Range(result.dates) =
               {d \in {get_effective_date(h, result.year) : h \in ActiveDefs} :
                    year_of(d) = result.year}
        /\ \A h \in ActiveDefs :
               (/\ get_actual_date(h, result.year) = ymd2ord(result.year, 12, 31)
                /\ weekday(get_actual_date(h, result.year)) = 6) =>
                   /\ get_effective_date(h, result.year) \notin Range(result.dates)
                   /\ <<get_actual_date(h, result.year), h.name>> \in
                          Range(get_holidays(Globals, result.year).val)
        /\ (OnlyNewYear /\ result.year = 2023) =>
               result.dates = <<ymd2ord(2023, 1, 2)>>

\* a year whose 31 December is a Sunday holiday was listed
C8_Witness ==
    /\ result.op = "get_holiday_effective_dates"
    /\ \E h \in ActiveDefs :
          /\ get_actual_date(h, result.year) = ymd2ord(result.year, 12, 31)
          /\ weekday(get_actual_date(h, result.year)) = 6
          /\ get_effective_date(h, result.year) \in cache
    /\ result.dates # <<>>

\* C9: the effective date is the actual date plus one day on a Sunday and the
\* actual date otherwise, so no effective date, cached or not, is a Sunday.
C9_EffectiveDateRule ==
    /\ \A i \in DOMAIN holidays, y \in ClaimYears :
           LET a == get_actual_date(holidays[i], y)
               e == get_effective_date(holidays[i], y)
           IN /\ e = IF weekday(a) = 6 THEN a + 1 ELSE a
              /\ weekday(e) # 6
    /\ \A d \in cache : weekday(d) # 6

\* the cache holds a Saturday holiday as it is and a Sunday holiday's Monday
C9_Witness ==
    /\ \E h \in ActiveDefs, y \in min_year..max_year :
          /\ weekday(get_actual_date(h, y)) = 6
          /\ get_actual_date(h, y) \notin cache
          /\ get_actual_date(h, y) + 1 \in cache
    /\ \E h \in ActiveDefs, y \in min_year..max_year :
          /\ weekday(get_actual_date(h, y)) = 5
          /\ get_actual_date(h, y) \in cache
    /\ \E h \in ActiveDefs : h.type_cd = "ONCE"
    /\ \E h \in ActiveDefs : h.type_cd \notin {"ONCE", "RECUR"}

\* C10: right after init(locale, reference_year) the span is one year, the
\* active locale is the given one and the cache holds exactly that year's
\* effective dates of the active locale.
C10_InitSingleYear ==
    result.op = "init" =>
        /\ min_year = max_year
        /\ current_locale = result.locale
        /\ cache = {get_effective_date(h, min_year) : h \in ActiveDefs}

\* C11: get_business_days(start, end) with start > end returns the empty
\* list, whatever the cache held before.
C11_ReversedRangeEmpty ==
    (result.op = "get_business_days" /\ result.start_date > result.end_date) =>
        result.dates = <<>>

\* a reversed range over a year boundary that holds an open weekday
C11_Witness ==
    /\ result.op = "get_business_days"
    /\ result.start_date > result.end_date
    /\ year_of(result.start_date) > year_of(result.end_date)
    /\ \E d \in result.end_date..result.start_date :
          weekday(d) < 5 /\ d \notin cache
    /\ cache # {}

\* the names of the query functions
QueryOps ==
    {"is_business_day", "get_business_days", "get_holidays",
     "get_holiday_effective_dates", "get_previous_business_day", "walking"}

\* the module globals after a step
GlobalsNext ==
    [holidays |-> holidays', cache |-> cache', min_year |-> min_year',
     max_year |-> max_year', current_locale |-> current_locale']

\* C13: for every year of the known span and every definition of the active
\* locale, the effective date of that year is in the cache.
C13_SpanIsExpanded ==
    \A y \in min_year..max_year, h \in ActiveDefs :
        get_effective_date(h, y) \in cache

\* queries grew the span on both sides of the year the process runs in
C13_Witness ==
    /\ result.op \in QueryOps
    /\ min_year < today
    /\ today < max_year
    /\ Cardinality(ActiveDefs) = 2

\* C14 as stated: every cached date has its year within the known span.
C14_CacheWithinSpan ==
    \A d \in cache : year_of(d) \in min_year..max_year

\* C14 as amended: a cached date lies in a year of the known span, or is the
\* 1 January that follows a Sunday 31 December of the last year of the span,
\* or is the effective date of a one-time definition of the active locale.
C14_CacheWithinSpanOrRolled ==
    \A d \in cache :
        \/ year_of(d) \in min_year..max_year
        \/ d = Jan1(max_year + 1) /\ weekday(d - 1) = 6
        \/ \E h \in ActiveDefs :
               h.type_cd = "ONCE" /\ d = get_effective_date(h, min_year)

\* a recurring Sunday 31 December put the next 1 January, a year past the
\* span, in the cache
C14_Witness ==
    /\ Jan1(max_year + 1) \in cache
    /\ \A h \in ActiveDefs : h.type_cd = "RECUR"
    /\ result.op \in QueryOps

\* C15: across a query step the span only widens, it takes in the year asked
\* for, and no cached date is lost.
C15_QueriesOnlyGrow ==
    [][result'.op # "init" =>
          /\ min_year' <= min_year
          /\ max_year' >= max_year
          /\ cache \subseteq cache'
          /\ result'.op \in {"get_holidays", "get_holiday_effective_dates"} =>
                 result'.year \in min_year'..max_year'
          /\ result'.op = "is_business_day" =>
                 year_of(result'.date) \in min_year'..max_year'
          /\ result'.op = "get_business_days" =>
                 /\ year_of(result'.start_date) \in min_year'..max_year'
                 /\ year_of(result'.end_date) \in min_year'..max_year'
          /\ result'.op = "get_previous_business_day" =>
                 year_of(result'.prev_day) \in min_year'..max_year']_vars

\* a query for a year before the span widened it and kept what was cached
C15_Witness ==
    /\ result.op = "get_holidays"
    /\ result.year = min_year
    /\ min_year < today
    /\ today < max_year
    /\ cache # {}

\* C16: a query for a year already within the span leaves the span and the
\* cache as they are, and loading a year twice is the same as loading it once.
C16_EnsureYearIdempotent ==
    /\ [][(/\ result'.op \in {"get_holidays", "get_holiday_effective_dates"}
           /\ check_year(Globals, result'.year)) =>
              GlobalsNext = Globals]_vars
    /\ [](\A y \in ClaimYears :
              /\ check_year(Globals, y) => check_and_update(Globals, y) = Globals
              /\ check_and_update(check_and_update(Globals, y), y) =
                     check_and_update(Globals, y))

\* the year the process runs in, inside a wider span, was asked for
C16_Witness ==
    /\ result.op = "get_holiday_effective_dates"
    /\ result.year = today
    /\ min_year < today
    /\ today < max_year
    /\ cache # {}

\* C17: the effective date of a one-time definition of the active locale is
\* cached whatever the span is, and is_business_day rejects it.
C17_OnceAlwaysCached ==
    \A h \in ActiveDefs :
        h.type_cd = "ONCE" =>
            LET d == get_effective_date(h, min_year)
            IN /\ d \in cache
               /\ ~is_business_day(Globals, d).val
               /\ (result.op = "is_business_day" /\ result.date = d) =>
                      result.val = FALSE

\* the one-time date lies a year past the span and is cached all the same
C17_Witness ==
    /\ \E h \in ActiveDefs :
          /\ h.type_cd = "ONCE"
          /\ year_of(get_effective_date(h, min_year)) > max_year
          /\ get_effective_date(h, min_year) \in cache
    /\ result.op = "is_business_day"

\* C18: what is_business_day answers for a date does not depend on the queries
\* made since the last init: no query step changes the answer for any date.
C18_AnswerIndependentOfQueries ==
    [][result'.op # "init" =>
          \A d \in QueryDates :
              is_business_day(GlobalsNext, d).val =
                  is_business_day(Globals, d).val]_vars

\* C19: for a year Y of the span, the cached dates of year Y are exactly the
\* dates get_holiday_effective_dates(Y) returns.
C19_ListAgreesWithCache ==
    \A y \in min_year..max_year :
        {d \in cache : year_of(d) = y} =
            Range(get_holiday_effective_dates(Globals, y).val)

\* C20: every cached date is the effective date, for a year of the span, of a
\* definition of the active locale; nothing of another locale is left.
C20_CacheFromActiveLocale ==
    \A d \in cache :
        \E h \in ActiveDefs, y \in min_year..max_year :
            d = get_effective_date(h, y)

\* after an init the table holds a record of another locale whose dates are
\* not cached, while dates of the active locale are
C20_Witness ==
    /\ result.op = "init"
    /\ cache # {}
    /\ \E i \in DOMAIN holidays :
          /\ holidays[i].locale # current_locale
          /\ \A y \in min_year..max_year :
                 get_effective_date(holidays[i], y) \notin cache

\* a record whose value parses in no year
malformed(h) == \A y \in ClaimYears : get_date_raises(h, y)

\* C12: an init that returned (at import or later) means that no record of
\* the table, of any locale, has a malformed value; and a query made after
\* an init that returned never raises on a malformed value.
C12_MalformedFailsAtInit ==
    /\ result.op \in {"import", "init"} =>
           \A i \in DOMAIN holidays : ~malformed(holidays[i])
    /\ (result.op = "ValueError" /\ result.call # "init") =>
           ~malformed(result.holiday)

====
